---- MODULE Spec2Model ----
(***************************************************************************)
(* Model of the session-rating-analyzer pipeline:                          *)
(*   QueryGenerator  (generateQuery / fixQuery)    queryGenerator.js       *)
(*   ResultAnalyzer  (analyzeResults)              queryGenerator.js       *)
(*   MongoService    (connect / executeQueryWithRetry)  mongoService.js    *)
(* A text is a sequence of tokens, a JSON value is a record, an error      *)
(* message is the sequence of the fragments the code concatenates.         *)
(***************************************************************************)
EXTENDS Integers, Sequences, FiniteSets, TLC

\* ---------------------------------------------------------------- bounds
MaxRetriesBound == 3
MaxCalls == 2

\* ------------------------------------------------------------ JSON values
JVal(k, t, its) == [kind |-> k, tag |-> t, items |-> its]
JNull == JVal("null", "null", <<>>)
JNum(t) == JVal("number", t, <<>>)
JStr(t) == JVal("string", t, <<>>)
JObj(t) == JVal("object", t, <<>>)
JArr(its) == JVal("array", "", its)
Undefined == JVal("undefined", "undefined", <<>>)

\* Array.isArray
IsArray(v) == v.kind = "array"

\* ------------------------------------------------------------------ texts
Whitespace == {" ", "\n"}
NumToks == {"1"}
StrToks == {"\"s\""}
KeyToks == {"$match", "$group"}

\* String.prototype.trim
RECURSIVE TrimLeft(_)
TrimLeft(t) ==
  IF t # <<>> /\ Head(t) \in Whitespace THEN TrimLeft(Tail(t)) ELSE t

RECURSIVE TrimRight(_)
TrimRight(t) ==
  IF t # <<>> /\ t[Len(t)] \in Whitespace
  THEN TrimRight(SubSeq(t, 1, Len(t) - 1))
  ELSE t

Trim(t) == TrimRight(TrimLeft(t))

\* --------------------------------------------------------------JSON.parse
RECURSIVE SkipWs(_, _)
SkipWs(t, i) ==
  IF i <= Len(t) /\ t[i] \in Whitespace THEN SkipWs(t, i + 1) ELSE i

ParseFail == [ok |-> FALSE, val |-> Undefined, next |-> 0]
ParseOk(v, n) == [ok |-> TRUE, val |-> v, next |-> n]

RECURSIVE ParseValue(_, _)
RECURSIVE ParseElems(_, _, _)
ParseValue(t, i) ==
  LET j == SkipWs(t, i) IN
  IF j > Len(t) THEN ParseFail
  ELSE IF t[j] = "null" THEN ParseOk(JNull, j + 1)
  ELSE IF t[j] \in NumToks THEN ParseOk(JNum(t[j]), j + 1)
  ELSE IF t[j] \in StrToks THEN ParseOk(JStr(t[j]), j + 1)
  ELSE IF t[j] = "{" THEN
    LET k == SkipWs(t, j + 1) IN
    IF k > Len(t) THEN ParseFail
    ELSE IF t[k] = "}" THEN ParseOk(JObj(""), k + 1)
    ELSE IF t[k] \in KeyToks THEN
      LET m == SkipWs(t, k + 1) IN
      IF m <= Len(t) /\ t[m] = "}" THEN ParseOk(JObj(t[k]), m + 1)
      ELSE ParseFail
    ELSE ParseFail
  ELSE IF t[j] = "[" THEN
    LET k == SkipWs(t, j + 1) IN
    IF k <= Len(t) /\ t[k] = "]" THEN ParseOk(JArr(<<>>), k + 1)
    ELSE ParseElems(t, j + 1, <<>>)
  ELSE ParseFail

ParseElems(t, i, acc) ==
  LET r == ParseValue(t, i) IN
  IF ~r.ok THEN ParseFail
  ELSE
    LET k == SkipWs(t, r.next) IN
    IF k > Len(t) THEN ParseFail
    ELSE IF t[k] = "," THEN ParseElems(t, k + 1, Append(acc, r.val))
    ELSE IF t[k] = "]" THEN ParseOk(JArr(Append(acc, r.val)), k + 1)
    ELSE ParseFail

\* JSON.parse(text): a value, or a SyntaxError
JSONParse(t) ==
  LET r == ParseValue(t, 1) IN
  IF r.ok /\ SkipWs(t, r.next) > Len(t)
  THEN [ok |-> TRUE, val |-> r.val, err |-> <<>>]
  ELSE [ok |-> FALSE, val |-> Undefined, err |-> <<"Unexpected token">>]

\* JSON.stringify(value)
RECURSIVE JSONStringify(_)
RECURSIVE StringifyItems(_)
JSONStringify(v) ==
  IF v.kind = "array" THEN <<"[">> \o StringifyItems(v.items) \o <<"]">>
  ELSE IF v.kind = "object" THEN
    (IF v.tag = "" THEN <<"{", "}">> ELSE <<"{", v.tag, "}">>)
  ELSE <<v.tag>>

StringifyItems(its) ==
  IF its = <<>> THEN <<>>
  ELSE IF Len(its) = 1 THEN JSONStringify(its[1])
  ELSE JSONStringify(its[1]) \o <<",">> \o StringifyItems(Tail(its))

\* ------------------------------------------------------------ environment
\* What the oracle (openai.chat.completions.create) can answer.
OracleTexts ==
  { <<"[", "]">>,
    <<" ", "[", "{", "$match", "}", ",", "{", "$group", "}", "]", "\n">>,
    <<"{", "$match", "}">>,
    <<"1">>,
    <<"[", "1", "]">>,
    <<"Sorry">>,
    <<>>,
    <<" ", "\n">> }

OracleOutcomes ==
  [type : {"text"}, text : OracleTexts]
    \cup [type : {"unavailable", "nocontent"}, text : {<<>>}]

Questions == {"q1", "q2"}
StoreErrors == {"e1", "e2"}
ResultSets == {JArr(<<>>), JArr(<<JObj("r1")>>), JArr(<<JObj("r1"), JObj("r2")>>)}
InitialQueries == {JArr(<<>>), JArr(<<JObj("$match")>>)}

StoreOutcomes ==
  [ok : {TRUE}, result : ResultSets, message : {<<>>}]
    \cup [ok : {FALSE}, result : {Undefined}, message : {<<e>> : e \in StoreErrors}]

\* ------------------------------------------------- results of an operation
NoRet == [status |-> "none", value |-> Undefined, error |-> <<>>]
Return(v) == [status |-> "returned", value |-> v, error |-> <<>>]
Throw(msg) == [status |-> "threw", value |-> Undefined, error |-> msg]
ThrowText(msg) == [status |-> "threw", value |-> <<>>, error |-> msg]

\* response.choices[0].message.content.trim()
OracleContent(out) ==
  IF out.type = "unavailable"
  THEN [ok |-> FALSE, text |-> <<>>, err |-> <<"Connection error.">>]
  ELSE IF out.type = "nocontent"
  THEN [ok |-> FALSE, text |-> <<>>,
        err |-> <<"Cannot read properties of null (reading 'trim')">>]
  ELSE [ok |-> TRUE, text |-> Trim(out.text), err |-> <<>>]

\* ---------------------------------------------------------- QueryGenerator
QG_CONTEXT == "You are a MongoDB query generator"
RA_CONTEXT == "You are a data analyst"

\* mutant: the parsed answer is returned without the Array.isArray test
generateQuery_NoArrayCheck(out) ==
  LET c == OracleContent(out) IN
  IF ~c.ok THEN Throw(<<"Failed to generate MongoDB query: ">> \o c.err)
  ELSE
    LET p == JSONParse(c.text) IN
    IF ~p.ok
    THEN Throw(<<"Failed to generate MongoDB query: ",
                 "Invalid MongoDB query generated: ">> \o p.err)
    ELSE Return(p.val)

\* generateQuery, from the oracle's answer on (the part inside try)
generateQuery(out) ==
  LET c == OracleContent(out) IN
  IF ~c.ok THEN Throw(<<"Failed to generate MongoDB query: ">> \o c.err)
  ELSE
    LET p == JSONParse(c.text) IN
    IF ~p.ok
    THEN Throw(<<"Failed to generate MongoDB query: ",
                 "Invalid MongoDB query generated: ">> \o p.err)
    ELSE IF ~IsArray(p.val)
    THEN Throw(<<"Failed to generate MongoDB query: ",
                 "Invalid MongoDB query generated: ",
                 "Query must be an array">>)
    ELSE Return(p.val)

\* the repair prompt of fixQuery
FixPrompt(originalQuery, errorMessage, failedQuery) ==
  [errorMessage |-> errorMessage,
   originalQuery |-> originalQuery,
   failedQuery |-> JSONStringify(failedQuery)]

\* fixQuery up to its await: it builds the prompt and sends the request;
\* no test of isInitialized precedes the request
fixQueryRequest(init, ctx, originalQuery, errorMessage, failedQuery) ==
  [requested |-> TRUE,
   system |-> ctx,
   user |-> FixPrompt(originalQuery, errorMessage, failedQuery)]

\* fixQuery, from the oracle's answer on
fixQuery(out) ==
  LET c == OracleContent(out) IN
  IF ~c.ok THEN Throw(<<"Failed to fix query: ">> \o c.err)
  ELSE
    LET p == JSONParse(c.text) IN
    IF ~p.ok THEN Throw(<<"Failed to fix query: ">> \o p.err)
    ELSE Return(p.val)

\* analyzeResults, from the oracle's answer on
analyzeResults(out) ==
  LET c == OracleContent(out) IN
  IF ~c.ok THEN ThrowText(<<"Failed to analyze results: ">> \o c.err)
  ELSE [status |-> "returned", value |-> c.text, error |-> <<>>]

\* ------------------------------------------------------------ error kinds
\* The code raises plain Error objects; the kind is the message prefix.
ErrorKind(msg) ==
  IF msg = <<>> THEN "none"
  ELSE IF Head(msg) \in {"Query Generator not initialized",
                         "Result Analyzer not initialized"}
  THEN "NotInitializedError"
  ELSE IF Head(msg) \in {"Failed to generate MongoDB query: ",
                         "Failed to fix query: "}
  THEN "TranslationError"
  ELSE IF Head(msg) = "Database query failed after " THEN "QueryExecutionError"
  ELSE IF Head(msg) = "Query could not be fixed: " THEN "QueryRepairError"
  ELSE IF Head(msg) = "Failed to analyze results: " THEN "AnalysisError"
  ELSE "Error"

\* ---------------------------------------------------------- result records
\* A record of a result set: the set of its own properties and their values.
\* One value stands for whichever aggregate fields are present; rating is
\* ratings.overallAverage in hundredths (0 when ratings carries none).
AggregateFields ==
  {"avgRating", "averageRating", "totalSessions", "count", "sum", "avg"}
KeyOrder ==
  <<"_id", "avgRating", "averageRating", "totalSessions", "count", "sum",
    "avg", "ratings", "instructor", "domain">>

ResultRecord(keys, id, agg, rating, instructor, domain) ==
  [keys |-> keys, id |-> id, agg |-> agg, rating |-> rating,
   instructor |-> instructor, domain |-> domain]

\* Object.prototype.hasOwnProperty
HasOwn(r, k) == k \in r.keys

\* JSON.stringify of one property value
ValueTokens(r, k) ==
  IF k = "_id" THEN <<r.id>>
  ELSE IF k \in AggregateFields THEN <<ToString(r.agg)>>
  ELSE IF k = "ratings"
  THEN (IF r.rating = 0 THEN <<"{", "}">>
        ELSE <<"{", "overallAverage", ":", ToString(r.rating), "}">>)
  ELSE IF k = "instructor" THEN <<r.instructor>>
  ELSE <<r.domain>>

\* the i-th property, if present, on a new line, after a comma unless first
FieldTokens(r, i) ==
  IF HasOwn(r, KeyOrder[i])
  THEN (IF \E j \in 1 .. (i - 1) : HasOwn(r, KeyOrder[j]) THEN <<",">> ELSE <<>>)
         \o (<<"\n", KeyOrder[i], ":">> \o ValueTokens(r, KeyOrder[i]))
  ELSE <<>>

RecordTokens(r) ==
  IF r.keys = {} THEN <<"{", "}">>
  ELSE (<<"{">>
         \o ((FieldTokens(r, 1) \o FieldTokens(r, 2))
              \o (FieldTokens(r, 3) \o FieldTokens(r, 4))))
       \o (((FieldTokens(r, 5) \o FieldTokens(r, 6))
             \o (FieldTokens(r, 7) \o FieldTokens(r, 8)))
            \o ((FieldTokens(r, 9) \o FieldTokens(r, 10)) \o <<"\n", "}">>))

\* the records lo..hi, each on a new line, separated by commas
RECURSIVE RecordsTokens(_, _, _)
RecordsTokens(recs, lo, hi) ==
  IF lo > hi THEN <<>>
  ELSE IF lo = hi
  THEN (IF lo = 1 THEN <<>> ELSE <<",">>) \o <<"\n">> \o RecordTokens(recs[lo])
  ELSE LET mid == (lo + hi) \div 2 IN
       RecordsTokens(recs, lo, mid) \o RecordsTokens(recs, mid + 1, hi)

\* JSON.stringify(records, null, 2)
StringifyPretty(recs) ==
  IF recs = <<>> THEN <<"[", "]">>
  ELSE <<"[">> \o RecordsTokens(recs, 1, Len(recs)) \o <<"\n", "]">>

\* Array.prototype.slice(0, n)
Slice(recs, n) == SubSeq(recs, 1, IF Len(recs) < n THEN Len(recs) ELSE n)

\* ----------------------------------------------- ResultAnalyzer (summaries)
AggregatedMax == 200
SmallMax == 10
SampleSize == 10
InstructorsShown == 5

\* mutant: the size limit of the aggregated case is dropped
isAggregatedData_NoSizeLimit(results) ==
  IF results.kind = "undefined" \/ Len(results.items) = 0 THEN FALSE
  ELSE
    LET firstResult == results.items[1] IN
    /\ HasOwn(firstResult, "_id")
    /\ \E k \in AggregateFields : HasOwn(firstResult, k)

\* isAggregatedData(results): only results[0] is inspected
isAggregatedData(results) ==
  IF results.kind = "undefined" \/ Len(results.items) = 0 THEN FALSE
  ELSE
    LET firstResult == results.items[1] IN
    /\ HasOwn(firstResult, "_id")
    /\ \E k \in AggregateFields : HasOwn(firstResult, k)
    /\ Len(results.items) <= AggregatedMax

NoDataSentence == <<"No data found matching the query criteria.">>

\* results.filter(r => r.ratings && r.ratings.overallAverage)
RECURSIVE RatingsFound(_, _, _)
RatingsFound(recs, lo, hi) ==
  IF lo > hi THEN <<>>
  ELSE IF lo = hi
  THEN (IF HasOwn(recs[lo], "ratings") /\ recs[lo].rating # 0
        THEN <<recs[lo].rating>> ELSE <<>>)
  ELSE LET mid == (lo + hi) \div 2 IN
       RatingsFound(recs, lo, mid) \o RatingsFound(recs, mid + 1, hi)

\* ratingsFound.reduce((sum, r) => sum + r.ratings.overallAverage, 0)
RECURSIVE SumSeq(_, _, _)
SumSeq(q, lo, hi) ==
  IF lo > hi THEN 0
  ELSE IF lo = hi THEN q[lo]
  ELSE LET mid == (lo + hi) \div 2 IN SumSeq(q, lo, mid) + SumSeq(q, mid + 1, hi)

\* (sum / n).toFixed(2), in hundredths, rounded to the nearest
Fixed2(sum, n) == (2 * sum + n) \div (2 * n)

InSeq(x, q) == \E i \in 1 .. Len(q) : q[i] = x

\* mutant: values already seen are added again
SetAddAll_KeepDuplicates(q, more) == q \o more

\* [...new Set(results.map(r => r.instructor).filter(Boolean))]
\* insertion into a Set: q followed by the members of more not yet present
\* (more is itself free of repetitions wherever this is applied)
SetAddAll(q, more) == q \o SelectSeq(more, LAMBDA x : ~InSeq(x, q))

RECURSIVE DistinctInstructors(_, _, _)
DistinctInstructors(recs, lo, hi) ==
  IF lo > hi THEN <<>>
  ELSE IF lo = hi
  THEN (IF HasOwn(recs[lo], "instructor") /\ recs[lo].instructor # ""
        THEN <<recs[lo].instructor>> ELSE <<>>)
  ELSE LET mid == (lo + hi) \div 2 IN
       SetAddAll(DistinctInstructors(recs, lo, mid),
                 DistinctInstructors(recs, mid + 1, hi))

\* [...new Set(results.map(r => r.domain).filter(Boolean))]
RECURSIVE DistinctDomains(_, _, _)
DistinctDomains(recs, lo, hi) ==
  IF lo > hi THEN <<>>
  ELSE IF lo = hi
  THEN (IF HasOwn(recs[lo], "domain") /\ recs[lo].domain # ""
        THEN <<recs[lo].domain>> ELSE <<>>)
  ELSE LET mid == (lo + hi) \div 2 IN
       SetAddAll(DistinctDomains(recs, lo, mid),
                 DistinctDomains(recs, mid + 1, hi))

\* Array.prototype.join(", ")
RECURSIVE JoinComma(_)
JoinComma(q) ==
  IF q = <<>> THEN <<>>
  ELSE IF Len(q) = 1 THEN <<q[1]>>
  ELSE <<q[1], ", ">> \o JoinComma(Tail(q))

\* the "Data overview" digest of prepareResultSummary
DigestSummary(recs) ==
  LET found == RatingsFound(recs, 1, Len(recs))
      instructors == DistinctInstructors(recs, 1, Len(recs))
      domains == DistinctDomains(recs, 1, Len(recs))
  IN <<"Data overview:\n", "- Total records: ", ToString(Len(recs)), "\n",
       "- Sample data (first 10 records): ">>
       \o StringifyPretty(Slice(recs, SampleSize)) \o <<"\n">>
       \o (IF Len(found) > 0
           THEN <<"- Average rating across results: ",
                  ToString(Fixed2(SumSeq(found, 1, Len(found)), Len(found))), "\n">>
           ELSE <<>>)
       \o (IF Len(instructors) > 0
           THEN <<"- Unique instructors: ", ToString(Len(instructors)), " (">>
                  \o JoinComma(Slice(instructors, InstructorsShown))
                  \o (IF Len(instructors) > InstructorsShown
                      THEN <<"...">> ELSE <<>>)
                  \o <<")\n">>
           ELSE <<>>)
       \o (IF Len(domains) > 0
           THEN <<"- Domains covered: ">> \o JoinComma(domains) \o <<"\n">>
           ELSE <<>>)

\* mutant: the empty result set is not treated apart
prepareResultSummary_NoEmptyCase(results) ==
  IF isAggregatedData(results)
  THEN <<"Complete aggregated results (", ToString(Len(results.items)),
         " records):\n">> \o StringifyPretty(results.items)
  ELSE IF Len(results.items) <= SmallMax
  THEN <<"Complete results: ">> \o StringifyPretty(results.items)
  ELSE DigestSummary(results.items)

\* prepareResultSummary(results)
prepareResultSummary(results) ==
  IF results.kind = "undefined" \/ Len(results.items) = 0
  THEN NoDataSentence
  ELSE IF isAggregatedData(results)
  THEN <<"Complete aggregated results (", ToString(Len(results.items)),
         " records):\n">> \o StringifyPretty(results.items)
  ELSE IF Len(results.items) <= SmallMax
  THEN <<"Complete results: ">> \o StringifyPretty(results.items)
  ELSE DigestSummary(results.items)

\* ------------------------------------------------- responses (api/query.js)
RawFullMax == 200
RawShown == 50

NoResponse ==
  [status |-> 0, keys |-> {}, success |-> FALSE, error |-> <<>>, query |-> <<>>,
   resultCount |-> 0, analysis |-> <<>>, rawResults |-> <<>>]

\* res.status(200).end()
EmptyResponse(code) == [NoResponse EXCEPT !.status = code]

\* error.message || "An error occurred while processing your query"
ErrorText(msg) ==
  IF msg = <<>> THEN <<"An error occurred while processing your query">> ELSE msg

\* res.status(code).json({ success: false, error })
FailureResponse(code, msg) ==
  [NoResponse EXCEPT !.status = code, !.keys = {"success", "error"},
                     !.error = msg]

\* mutant: only a small result list is returned whole
RawResults_SmallOnly(items) ==
  IF Len(items) <= SmallMax THEN items ELSE Slice(items, RawShown)

\* mutant: every result list is cut to its first records
RawResults_AlwaysSlice(items) == Slice(items, RawShown)

\* results.length <= 200 ? results : results.slice(0, 50)
RawResults(items) ==
  IF Len(items) <= RawFullMax THEN items ELSE Slice(items, RawShown)

\* res.json({ success: true, query, resultCount, analysis, rawResults,
\*            executionTime })
SuccessResponse(query, results, analysis) ==
  [status |-> 200,
   keys |-> {"success", "query", "resultCount", "analysis", "rawResults",
             "executionTime"},
   success |-> TRUE, error |-> <<>>, query |-> query,
   resultCount |-> Len(results.items), analysis |-> analysis,
   rawResults |-> RawResults(results.items)]

\* ------------------------------------------------- requests (api/query.js)
Requests == {"r1", "r2"}

\* the locals and effects of one executeQueryWithRetry invocation, at its call
NewRun ==
  [pc |-> "idle", query |-> Undefined, att |-> 0, ret |-> NoRet,
   alog |-> <<>>, scalls |-> <<>>, fcalls |-> <<>>]

\* a request that has not arrived
NewRequest ==
  [pc |-> "idle", method |-> "", query |-> <<>>,
   gen |-> NoRet, run |-> NewRun, frets |-> <<>>,
   acalls |-> <<>>, ana |-> NoRet,
   responses |-> <<>>, trace |-> <<>>]

\* ------------------------------------------------------------------ state
VARIABLES
  qgInitialized, qgContext,      \* QueryGenerator.isInitialized / .context
  raInitialized, raContext,      \* ResultAnalyzer.isInitialized / .context
  client, db, collection,        \* MongoService fields
  isConnected,
  connPc, connRet,               \* one connect() call: position and outcome
  runPc,                         \* executeQueryWithRetry: idle / executing /
                                 \*   repairing / done
  mongoQuery, originalQuery,     \* its parameters
  maxRetries,
  currentQuery, attempt,         \* its locals
  runRet,                        \* what it returned or threw
  attemptLog,                    \* one entry per loop iteration entered
  storeCalls,                    \* pipelines handed to collection.aggregate
  fixCalls, fixRets,             \* calls of fixQuery and their outcomes
  genPc, genQuestion,            \* generateQuery: idle / awaiting, its parameter
  genLog,                        \* one entry per call of generateQuery
  genCalls,                      \* oracle requests made by generateQuery
  genRets,                       \* outcome of each completed call
  anaPc, anaQuestion, anaResults,\* analyzeResults: idle / awaiting, parameters
  anaLog,                        \* one entry per call of analyzeResults
  anaCalls,                      \* oracle requests made by analyzeResults
  anaRets,                       \* outcome of each completed call
  nCalls,                        \* calls of generateQuery/analyzeResults so far
  sumPc, sumInput, sumOutput,    \* one prepareResultSummary call: position,
                                 \*   argument, returned text
  isContextInitialized,          \* api/query.js module-level flag
  clientsCreated,                \* number of `new MongoClient(...)` so far
  req,                           \* per request: the handler's position, its
                                 \*   locals, the calls it made, its responses
  respPc, respInput, respOutput, \* one success response built: position,
                                 \*   result set, response
  isLoading,                     \* public/script.js global
  submitBtnDisabled,             \* submitBtn.disabled
  shown,                         \* what the page shows: nothing, results, error
  calls                          \* the submitQuery calls so far: position,
                                 \*   whether a request was sent, how it ended

qgVars == <<qgInitialized, qgContext>>
raVars == <<raInitialized, raContext>>
connVars == <<client, db, collection, isConnected, connPc, connRet>>
runVars == <<runPc, mongoQuery, originalQuery, maxRetries, currentQuery,
             attempt, runRet, attemptLog, storeCalls, fixCalls, fixRets>>
genVars == <<genPc, genQuestion, genLog, genCalls, genRets>>
anaVars == <<anaPc, anaQuestion, anaResults, anaLog, anaCalls, anaRets>>
sumVars == <<sumPc, sumInput, sumOutput>>
pipeVars == <<isContextInitialized, clientsCreated, req>>
respVars == <<respPc, respInput, respOutput>>
clientVars == <<isLoading, submitBtnDisabled, shown, calls>>
extVars == <<sumVars, pipeVars, respVars, clientVars>>
vars == <<qgVars, raVars, connVars, runVars, genVars, anaVars, nCalls, extVars>>

Init ==
  /\ qgInitialized = FALSE /\ qgContext = "null"
  /\ raInitialized = FALSE /\ raContext = "null"
  /\ client = "null" /\ db = "null" /\ collection = "null"
  /\ isConnected = FALSE
  /\ connPc = "idle" /\ connRet = NoRet
  /\ runPc = "idle"
  /\ mongoQuery = Undefined /\ originalQuery = "" /\ maxRetries = 0
  /\ currentQuery = Undefined /\ attempt = 0
  /\ runRet = NoRet
  /\ attemptLog = <<>> /\ storeCalls = <<>>
  /\ fixCalls = <<>> /\ fixRets = <<>>
  /\ genPc = "idle" /\ genQuestion = ""
  /\ genLog = <<>> /\ genCalls = <<>> /\ genRets = <<>>
  /\ anaPc = "idle" /\ anaQuestion = "" /\ anaResults = Undefined
  /\ anaLog = <<>> /\ anaCalls = <<>> /\ anaRets = <<>>
  /\ nCalls = 0
  /\ sumPc = "idle" /\ sumInput = Undefined /\ sumOutput = <<>>
  /\ isContextInitialized = FALSE /\ clientsCreated = 0
  /\ req = [r \in Requests |-> NewRequest]
  /\ respPc = "idle" /\ respInput = Undefined /\ respOutput = NoResponse
  /\ isLoading = FALSE /\ submitBtnDisabled = FALSE
  /\ shown = <<>> /\ calls = <<>>

\* ------------------------------------------------- initialize() (both)
QGInitialize ==
  /\ IF qgInitialized
     THEN UNCHANGED qgVars
     ELSE qgContext' = QG_CONTEXT /\ qgInitialized' = TRUE
  /\ UNCHANGED <<raVars, connVars, runVars, genVars, anaVars, nCalls>>
  /\ UNCHANGED extVars

RAInitialize ==
  /\ IF raInitialized
     THEN UNCHANGED raVars
     ELSE raContext' = RA_CONTEXT /\ raInitialized' = TRUE
  /\ UNCHANGED <<qgVars, connVars, runVars, genVars, anaVars, nCalls>>
  /\ UNCHANGED extVars

\* ------------------------------------------------------ MongoService.connect
\* connect() up to its first await: client.connect() is in flight
ConnectCall ==
  /\ connPc = "idle"
  /\ IF isConnected
     THEN /\ connRet' = Return(Undefined)
          /\ UNCHANGED <<client, db, collection, isConnected, connPc>>
     ELSE /\ client' = "MongoClient"
          /\ connPc' = "connecting"
          /\ connRet' = NoRet
          /\ UNCHANGED <<db, collection, isConnected>>
  /\ UNCHANGED <<qgVars, raVars, runVars, genVars, anaVars, nCalls>>
  /\ UNCHANGED extVars

\* client.connect() settles; on success testConnection's countDocuments
\* is in flight
ClientConnectReturn(ok) ==
  /\ connPc = "connecting"
  /\ IF ok
     THEN /\ db' = "rating-analyzer"
          /\ collection' = "sessions"
          /\ isConnected' = TRUE
          /\ connPc' = "testing"
          /\ UNCHANGED connRet
     ELSE /\ connPc' = "idle"
          /\ connRet' = Throw(<<"Database connection failed: ", "connect failed">>)
          /\ UNCHANGED <<db, collection, isConnected>>
  /\ UNCHANGED <<client, qgVars, raVars, runVars, genVars, anaVars, nCalls>>
  /\ UNCHANGED extVars

\* countDocuments settles
TestConnectionReturn(ok) ==
  /\ connPc = "testing"
  /\ connPc' = "idle"
  /\ connRet' = IF ok THEN Return(Undefined)
                ELSE Throw(<<"Database connection failed: ",
                             "Database test failed: ", "count failed">>)
  /\ UNCHANGED <<client, db, collection, isConnected>>
  /\ UNCHANGED <<qgVars, raVars, runVars, genVars, anaVars, nCalls>>
  /\ UNCHANGED extVars

\* ------------------------------------- MongoService.executeQueryWithRetry
\* The locals and effects of one invocation, as a record:
\*   pc, query (currentQuery), att (attempt), ret, alog, scalls, fcalls.

\* for (...; attempt < maxRetries; ...)
LoopGuard(att, N) == att < N

\* mutant: no attempt is taken for the last one
IsLastAttempt_Never(att, N) == FALSE

\* mutant: the last attempt is tested against maxRetries itself
IsLastAttempt_NoMinusOne(att, N) == att = N

\* if (attempt === maxRetries - 1)
IsLastAttempt(att, N) == att = N - 1

\* `Database query failed after ${maxRetries} attempts: ${error.message}`
ExhaustedError(N, msg) ==
  <<"Database query failed after ", ToString(N), " attempts: ">> \o msg

\* `Query could not be fixed: ${fixError.message}`
RepairError(msg) == <<"Query could not be fixed: ">> \o msg

\* this.collection is null: the call this.collection.aggregate throws
NullCollectionError == <<"Cannot read properties of null (reading 'aggregate')">>

\* mutant: the repaired query is dropped and the failed one kept
NextQuery_Stale(fixed, current) == current

\* currentQuery = await queryGenerator.fixQuery(...)
NextQuery(fixed, current) == fixed

AttemptEntry(q, oc, msg, res) ==
  [query |-> q, outcome |-> oc, message |-> msg, result |-> res]

\* catch (error): the last attempt throws, any other calls fixQuery, whose
\* oracle request is then in flight
OnFailureS(s, N, orig, msg, init, ctx) ==
  IF IsLastAttempt(s.att, N)
  THEN [s EXCEPT !.pc = "done", !.ret = Throw(ExhaustedError(N, msg))]
  ELSE [s EXCEPT !.pc = "repairing",
                 !.fcalls = Append(@, [originalQuery |-> orig,
                                       errorMessage |-> msg,
                                       failedQuery |-> s.query,
                                       initialized |-> init,
                                       request |-> fixQueryRequest(init, ctx,
                                                     orig, msg, s.query)])]

\* the loop test and the body up to `await ...aggregate(currentQuery).toArray()`
IterateS(s, N, orig, coll, init, ctx) ==
  IF ~LoopGuard(s.att, N)
  THEN [s EXCEPT !.pc = "done", !.ret = Return(Undefined)]
  ELSE IF coll = "null"
  THEN OnFailureS([s EXCEPT !.alog = Append(@, AttemptEntry(s.query, "failed",
                                               NullCollectionError, Undefined))],
                  N, orig, NullCollectionError, init, ctx)
  ELSE [s EXCEPT !.pc = "executing",
                 !.alog = Append(@, AttemptEntry(s.query, "pending", <<>>, Undefined)),
                 !.scalls = Append(@, s.query)]

\* mutant: a successful attempt returns without its results
AfterStoreS_NoResult(s, out, N, orig, init, ctx) ==
  LET n == Len(s.alog) IN
  IF out.ok
  THEN [s EXCEPT !.pc = "done", !.ret = Return(Undefined),
                 !.alog[n] = AttemptEntry(s.query, "ok", <<>>, out.result)]
  ELSE OnFailureS([s EXCEPT !.alog[n] = AttemptEntry(s.query, "failed",
                                                     out.message, Undefined)],
                  N, orig, out.message, init, ctx)

\* the aggregate settles: return results, or go to the catch block
AfterStoreS(s, out, N, orig, init, ctx) ==
  LET n == Len(s.alog) IN
  IF out.ok
  THEN [s EXCEPT !.pc = "done", !.ret = Return(out.result),
                 !.alog[n] = AttemptEntry(s.query, "ok", <<>>, out.result)]
  ELSE OnFailureS([s EXCEPT !.alog[n] = AttemptEntry(s.query, "failed",
                                                     out.message, Undefined)],
                  N, orig, out.message, init, ctx)

\* mutant: the attempt counter is not advanced after a repair
AfterFixS_NoIncrement(s, r, N, orig, coll, init, ctx) ==
  IF r.status = "threw"
  THEN [s EXCEPT !.pc = "done", !.ret = Throw(RepairError(r.error))]
  ELSE IterateS([s EXCEPT !.query = NextQuery(r.value, s.query)],
                N, orig, coll, init, ctx)

\* mutant: a failed repair is swallowed and the failed query retried
AfterFixS_Swallow(s, r, N, orig, coll, init, ctx) ==
  IF r.status = "threw"
  THEN IterateS([s EXCEPT !.att = @ + 1], N, orig, coll, init, ctx)
  ELSE IterateS([s EXCEPT !.query = NextQuery(r.value, s.query), !.att = @ + 1],
                N, orig, coll, init, ctx)

\* fixQuery settles: throw, or take the repaired query into the next iteration
AfterFixS(s, r, N, orig, coll, init, ctx) ==
  IF r.status = "threw"
  THEN [s EXCEPT !.pc = "done", !.ret = Throw(RepairError(r.error))]
  ELSE IterateS([s EXCEPT !.query = NextQuery(r.value, s.query), !.att = @ + 1],
                N, orig, coll, init, ctx)

RunS ==
  [pc |-> runPc, query |-> currentQuery, att |-> attempt, ret |-> runRet,
   alog |-> attemptLog, scalls |-> storeCalls, fcalls |-> fixCalls]

SetRun(s) ==
  /\ runPc' = s.pc
  /\ currentQuery' = s.query
  /\ attempt' = s.att
  /\ runRet' = s.ret
  /\ attemptLog' = s.alog
  /\ storeCalls' = s.scalls
  /\ fixCalls' = s.fcalls

\* executeQueryWithRetry(q, question, N) is called
RunCall(q, question, N) ==
  /\ runPc = "idle"
  /\ mongoQuery' = q
  /\ originalQuery' = question
  /\ maxRetries' = N
  /\ SetRun(IterateS([RunS EXCEPT !.query = q, !.att = 0], N, question,
                     collection, qgInitialized, qgContext))
  /\ UNCHANGED <<fixRets, qgVars, raVars, connVars, genVars, anaVars, nCalls>>
  /\ UNCHANGED extVars

\* the store answers the aggregate in flight
RunStoreReturn(out) ==
  /\ runPc = "executing"
  /\ SetRun(AfterStoreS(RunS, out, maxRetries, originalQuery,
                        qgInitialized, qgContext))
  /\ UNCHANGED <<mongoQuery, originalQuery, maxRetries, fixRets>>
  /\ UNCHANGED <<qgVars, raVars, connVars, genVars, anaVars, nCalls>>
  /\ UNCHANGED extVars

\* the oracle answers the repair request in flight
RunFixReturn(out) ==
  /\ runPc = "repairing"
  /\ fixRets' = Append(fixRets, [oracle |-> out, ret |-> fixQuery(out)])
  /\ SetRun(AfterFixS(RunS, fixQuery(out), maxRetries, originalQuery,
                      collection, qgInitialized, qgContext))
  /\ UNCHANGED <<mongoQuery, originalQuery, maxRetries>>
  /\ UNCHANGED <<qgVars, raVars, connVars, genVars, anaVars, nCalls>>
  /\ UNCHANGED extVars

\* maxRetries as passed by a caller: negative, zero and positive values
RetryRange == (0 - 1) .. MaxRetriesBound

Next ==
  \/ QGInitialize
  \/ ConnectCall
  \/ \E ok \in BOOLEAN : ClientConnectReturn(ok)
  \/ \E ok \in BOOLEAN : TestConnectionReturn(ok)
  \/ \E q \in InitialQueries, question \in Questions, N \in RetryRange :
       RunCall(q, question, N)
  \/ \E out \in StoreOutcomes : RunStoreReturn(out)
  \/ \E out \in OracleOutcomes : RunFixReturn(out)

Spec == Init /\ [][Next]_vars

\* ------------------------------------- generateQuery / analyzeResults calls
NoOracle == [type |-> "none", text |-> <<>>]

\* mutant: generateQuery sends its request without testing isInitialized
GenerateCall_NoGuard(question) ==
  /\ genPc = "idle"
  /\ nCalls < MaxCalls
  /\ nCalls' = nCalls + 1
  /\ genQuestion' = question
  /\ genLog' = Append(genLog, [question |-> question, initialized |-> qgInitialized])
  /\ genPc' = "awaiting"
  /\ genCalls' = Append(genCalls, [system |-> qgContext, user |-> question])
  /\ UNCHANGED genRets
  /\ UNCHANGED <<qgVars, raVars, connVars, runVars, anaVars>>
  /\ UNCHANGED extVars

\* generateQuery(question) up to its await: the guard, then the oracle request
GenerateCall(question) ==
  /\ genPc = "idle"
  /\ nCalls < MaxCalls
  /\ nCalls' = nCalls + 1
  /\ genQuestion' = question
  /\ genLog' = Append(genLog, [question |-> question, initialized |-> qgInitialized])
  /\ IF ~qgInitialized
     THEN /\ genRets' = Append(genRets,
                 [oracle |-> NoOracle,
                  ret |-> Throw(<<"Query Generator not initialized">>)])
          /\ UNCHANGED <<genPc, genCalls>>
     ELSE /\ genPc' = "awaiting"
          /\ genCalls' = Append(genCalls, [system |-> qgContext, user |-> question])
          /\ UNCHANGED genRets
  /\ UNCHANGED <<qgVars, raVars, connVars, runVars, anaVars>>
  /\ UNCHANGED extVars

\* the oracle answers generateQuery's request
GenerateReturn(out) ==
  /\ genPc = "awaiting"
  /\ genPc' = "idle"
  /\ genRets' = Append(genRets, [oracle |-> out, ret |-> generateQuery(out)])
  /\ UNCHANGED <<genQuestion, genLog, genCalls, nCalls>>
  /\ UNCHANGED <<qgVars, raVars, connVars, runVars, anaVars>>
  /\ UNCHANGED extVars

\* the user prompt of analyzeResults: the question, results.length and the
\* digest of prepareResultSummary, which is a function of the result set alone
\* and is carried here by the result set itself
AnalysisPrompt(question, results) ==
  [question |-> question, resultCount |-> Len(results.items), results |-> results]

\* analyzeResults(question, results) up to its await
AnalyzeCall(question, results) ==
  /\ anaPc = "idle"
  /\ nCalls < MaxCalls
  /\ nCalls' = nCalls + 1
  /\ anaQuestion' = question
  /\ anaResults' = results
  /\ anaLog' = Append(anaLog, [question |-> question, initialized |-> raInitialized])
  /\ IF ~raInitialized
     THEN /\ anaRets' = Append(anaRets,
                 [oracle |-> NoOracle,
                  ret |-> ThrowText(<<"Result Analyzer not initialized">>)])
          /\ UNCHANGED <<anaPc, anaCalls>>
     ELSE /\ anaPc' = "awaiting"
          /\ anaCalls' = Append(anaCalls, [system |-> raContext,
                                           user |-> AnalysisPrompt(question, results)])
          /\ UNCHANGED anaRets
  /\ UNCHANGED <<qgVars, raVars, connVars, runVars, genVars>>
  /\ UNCHANGED extVars

\* the oracle answers analyzeResults' request
AnalyzeReturn(out) ==
  /\ anaPc = "awaiting"
  /\ anaPc' = "idle"
  /\ anaRets' = Append(anaRets, [oracle |-> out, ret |-> analyzeResults(out)])
  /\ UNCHANGED <<anaQuestion, anaResults, anaLog, anaCalls, nCalls>>
  /\ UNCHANGED <<qgVars, raVars, connVars, runVars, genVars>>
  /\ UNCHANGED extVars

\* The translator and the narrator called directly
CompNext ==
  \/ QGInitialize
  \/ RAInitialize
  \/ \E question \in Questions : GenerateCall(question)
  \/ \E out \in OracleOutcomes : GenerateReturn(out)
  \/ \E question \in Questions, results \in ResultSets :
       AnalyzeCall(question, results)
  \/ \E out \in OracleOutcomes : AnalyzeReturn(out)

CompSpec == Init /\ [][CompNext]_vars

\* ================================================== executeQueryWithRetry
RunDone == runPc = "done"
AttemptIdx == 1 .. Len(attemptLog)
AllFixesSucceeded ==
  \A i \in 1 .. Len(fixRets) : fixRets[i].ret.status = "returned"
SomeFixFailed ==
  \E i \in 1 .. Len(fixRets) : fixRets[i].ret.status = "threw"
AllAttemptsFailed ==
  \A i \in AttemptIdx : attemptLog[i].outcome = "failed"

\* C1: with maxRetries = N >= 1, one invocation of executeQueryWithRetry
\* enters at most N execution attempts and calls the store's aggregate at
\* most N times, whatever the store and the oracle answer.
C1_AtMostNAttempts ==
  (runPc # "idle" /\ maxRetries >= 1) =>
    /\ Len(attemptLog) <= maxRetries
    /\ Len(storeCalls) <= maxRetries

C1_Witness ==
  /\ RunDone /\ maxRetries >= 2
  /\ Len(storeCalls) = maxRetries

\* The store stub of C2, as far as the run has played it: every attempt
\* before the Nth failed, the Nth succeeded, every repair succeeded.
C2_Scenario ==
  /\ maxRetries >= 1
  /\ AllFixesSucceeded
  /\ \A i \in AttemptIdx :
       /\ i < maxRetries => attemptLog[i].outcome = "failed"
       /\ i = maxRetries => attemptLog[i].outcome = "ok"

\* C2: when the first N-1 attempts fail, the Nth succeeds and every repair
\* succeeds, the run ends by returning, after exactly N attempts, the result
\* set of the Nth attempt.
C2_SuccessOnNth ==
  (RunDone /\ C2_Scenario) =>
    /\ runRet.status = "returned"
    /\ Len(attemptLog) = maxRetries
    /\ runRet.value = attemptLog[maxRetries].result
    /\ runRet.value \in ResultSets

C2_Witness ==
  /\ RunDone /\ C2_Scenario /\ maxRetries >= 2
  /\ Len(storeCalls) = maxRetries
  /\ runRet.status = "returned"

\* C3: when every attempt fails and every repair succeeds, the run ends
\* after exactly N attempts and N-1 repairs by throwing the error that
\* carries N and the message of the Nth failure.
C3_ExhaustedAfterN ==
  (RunDone /\ maxRetries >= 1 /\ AllFixesSucceeded /\ AllAttemptsFailed) =>
    /\ Len(attemptLog) = maxRetries
    /\ Len(fixCalls) = maxRetries - 1
    /\ Len(fixRets) = maxRetries - 1
    /\ runRet.status = "threw"
    /\ ErrorKind(runRet.error) = "QueryExecutionError"
    /\ runRet.error = <<"Database query failed after ", ToString(maxRetries),
                        " attempts: ">> \o attemptLog[maxRetries].message

C3_Witness ==
  /\ RunDone /\ maxRetries >= 2 /\ AllFixesSucceeded /\ AllAttemptsFailed
  /\ Len(storeCalls) = maxRetries
  /\ attemptLog[1].message # attemptLog[maxRetries].message

\* C4: a repair that fails ends the run at once with the repair error: it
\* is the last repair, no attempt follows it, and the failed query is not
\* executed again, whatever budget remains.
C4_RepairFailedIsTerminal ==
  \A i \in 1 .. Len(fixRets) :
    fixRets[i].ret.status = "threw" =>
      /\ RunDone
      /\ runRet.status = "threw"
      /\ ErrorKind(runRet.error) = "QueryRepairError"
      /\ runRet.error = <<"Query could not be fixed: ">> \o fixRets[i].ret.error
      /\ Len(fixRets) = i /\ Len(fixCalls) = i
      /\ Len(attemptLog) = i
      /\ Len(storeCalls) <= i

C4_Witness ==
  /\ SomeFixFailed
  /\ maxRetries >= 3 /\ Len(attemptLog) = 1 /\ Len(storeCalls) = 1

\* C5: each failed attempt that is not the last is followed by exactly one
\* fixQuery call, made with the original question, that attempt's error
\* message and that attempt's query; the next attempt executes the query
\* that call returned.
C5_FixThenRetry ==
  /\ Len(fixCalls) <= Len(attemptLog)
  /\ \A i \in 1 .. Len(fixCalls) :
       /\ i < maxRetries
       /\ attemptLog[i].outcome = "failed"
       /\ fixCalls[i].originalQuery = originalQuery
       /\ fixCalls[i].errorMessage = attemptLog[i].message
       /\ fixCalls[i].failedQuery = attemptLog[i].query
  /\ \A i \in AttemptIdx :
       (attemptLog[i].outcome = "failed" /\ i < maxRetries) => i <= Len(fixCalls)
  /\ \A i \in 1 .. Len(fixRets) :
       fixRets[i].ret.status = "returned" =>
         /\ i + 1 <= Len(attemptLog)
         /\ attemptLog[i + 1].query = fixRets[i].ret.value

C5_Witness ==
  /\ Len(attemptLog) >= 3 /\ Len(storeCalls) >= 3
  /\ attemptLog[2].query # mongoQuery
  /\ attemptLog[3].query # attemptLog[2].query
  /\ attemptLog[3].query # mongoQuery

\* C7: fixQuery keeps generateQuery's output contract: a repair answer that
\* is valid JSON but not an array makes fixQuery fail with the translation
\* error, so every pipeline the run executes after a repair is an array.
C7_FixRejectsNonArray ==
  /\ \A i \in 1 .. Len(fixRets) :
       LET c == OracleContent(fixRets[i].oracle) IN
       (c.ok /\ JSONParse(c.text).ok /\ ~IsArray(JSONParse(c.text).val)) =>
         /\ fixRets[i].ret.status = "threw"
         /\ ErrorKind(fixRets[i].ret.error) = "TranslationError"
  /\ \A i \in 1 .. Len(storeCalls) : IsArray(storeCalls[i])

\* C8: fixQuery on a translator that is not initialized fails with the
\* not-initialized error and sends no request to the oracle.
C8_FixNeedsInitialize ==
  \A i \in 1 .. Len(fixCalls) :
    ~fixCalls[i].initialized =>
      /\ ~fixCalls[i].request.requested
      /\ i <= Len(fixRets) =>
           /\ fixRets[i].ret.status = "threw"
           /\ ErrorKind(fixRets[i].ret.error) = "NotInitializedError"

\* ========================================= generateQuery / analyzeResults
\* C6: an initialized generateQuery returns an array or throws the
\* translation error, whatever the oracle does; it never returns a
\* non-array, and the oracle's empty array is returned as the empty sequence.
C6_GenerateContract ==
  \A i \in 1 .. Len(genRets) :
    LET e == genRets[i] IN
    e.oracle.type # "none" =>
      /\ e.ret.status \in {"returned", "threw"}
      /\ e.ret.status = "returned" => IsArray(e.ret.value)
      /\ e.ret.status = "threw" => ErrorKind(e.ret.error) = "TranslationError"
      /\ e.oracle.type # "text" => e.ret.status = "threw"
      /\ (e.oracle.type = "text" /\ Trim(e.oracle.text) = <<"[", "]">>) =>
           e.ret = Return(JArr(<<>>))

C6_Witness ==
  /\ \E i \in 1 .. Len(genRets) :
       /\ genRets[i].oracle.type = "text"
       /\ Trim(genRets[i].oracle.text) = <<"[", "]">>
       /\ genRets[i].ret.status = "returned"
  /\ \E i \in 1 .. Len(genRets) :
       /\ genRets[i].oracle.type = "text"
       /\ JSONParse(genRets[i].oracle.text).ok
       /\ ~IsArray(JSONParse(genRets[i].oracle.text).val)
       /\ genRets[i].ret.status = "threw"

\* C9: generateQuery on an uninitialized translator and analyzeResults on an
\* uninitialized narrator throw the not-initialized error, send no request
\* to the oracle, and leave isInitialized and context as they were.
C9_UninitializedCallsFail ==
  [][ /\ (Len(genLog') > Len(genLog) /\ ~qgInitialized) =>
           /\ genCalls' = genCalls
           /\ genPc' = "idle"
           /\ qgInitialized' = qgInitialized /\ qgContext' = qgContext
           /\ Len(genRets') = Len(genRets) + 1
           /\ genRets'[Len(genRets')].ret.status = "threw"
           /\ ErrorKind(genRets'[Len(genRets')].ret.error) = "NotInitializedError"
      /\ (Len(anaLog') > Len(anaLog) /\ ~raInitialized) =>
           /\ anaCalls' = anaCalls
           /\ anaPc' = "idle"
           /\ raInitialized' = raInitialized /\ raContext' = raContext
           /\ Len(anaRets') = Len(anaRets) + 1
           /\ anaRets'[Len(anaRets')].ret.status = "threw"
           /\ ErrorKind(anaRets'[Len(anaRets')].ret.error) = "NotInitializedError"
    ]_vars

C9_Witness ==
  /\ \E i \in 1 .. Len(genLog) : ~genLog[i].initialized
  /\ \E i \in 1 .. Len(anaLog) : ~anaLog[i].initialized
  /\ Len(genRets) = Len(genLog) /\ Len(anaRets) = Len(anaLog)
  /\ genCalls = <<>> /\ anaCalls = <<>>

\* C10: analyzeResults throws the analysis error when the oracle is
\* unavailable or answers with a text that is empty after trimming; it never
\* returns an empty analysis.
C10_AnalyzeRejectsEmpty ==
  \A i \in 1 .. Len(anaRets) :
    LET e == anaRets[i] IN
    e.oracle.type # "none" =>
      /\ (e.oracle.type = "unavailable"
            \/ (e.oracle.type = "text" /\ Trim(e.oracle.text) = <<>>)) =>
           /\ e.ret.status = "threw"
           /\ ErrorKind(e.ret.error) = "AnalysisError"
      /\ e.ret.status = "returned" => e.ret.value # <<>>

\* ================================================== prepareResultSummary
\* Result sets to summarize: a length, the shape of the first record and the
\* shape of the others.
BigLen == 250
SumLengths == {0, 1, 2, 9, 10, 11, 50, 199, 200, 201, BigLen}
Shapes ==
  { {"_id", "avgRating"},
    {"_id", "count", "totalSessions"},
    {"_id", "ratings", "instructor", "domain"},
    {"_id", "instructor"},
    {"avgRating"},
    {"ratings", "instructor", "domain"} }
InstructorNames == <<"Ann", "Bob", "Cy", "Di", "Ed", "Flo", "">>
DomainNames == <<"SRE", "Cloud", "">>

MkRecord(keys, i) ==
  ResultRecord(keys, ToString(i), 40 + (i % 3),
               IF i % 4 = 0 THEN 0 ELSE 300 + 50 * (i % 3),
               InstructorNames[(i % Len(InstructorNames)) + 1],
               DomainNames[(i % Len(DomainNames)) + 1])

MkResults(n, first, rest) ==
  JArr([i \in 1 .. n |-> MkRecord(IF i = 1 THEN first ELSE rest, i)])

SummaryInputs ==
  {MkResults(n, first, rest) : n \in SumLengths, first \in Shapes, rest \in Shapes}

\* prepareResultSummary(results) is called and returns
Summarize(results) ==
  /\ sumPc = "idle"
  /\ sumPc' = "done"
  /\ sumInput' = results
  /\ sumOutput' = prepareResultSummary(results)
  /\ UNCHANGED <<qgVars, raVars, connVars, runVars, genVars, anaVars, nCalls>>
  /\ UNCHANGED <<pipeVars, respVars, clientVars>>

SumNext == \E results \in SummaryInputs : Summarize(results)

SumSpec == Init /\ [][SumNext]_vars

SumDone == sumPc = "done"
SumLen == Len(sumInput.items)

\* the text ends with the serialization of all the records
EndsWithAllRecords(text, recs) ==
  LET ser == StringifyPretty(recs) IN
  /\ Len(text) >= Len(ser)
  /\ SubSeq(text, Len(text) - Len(ser) + 1, Len(text)) = ser

\* every record has an identifier and a recognized aggregate-value field
EveryRecordAggregated(recs) ==
  \A i \in 1 .. Len(recs) :
    /\ "_id" \in recs[i].keys
    /\ recs[i].keys \cap {"avgRating", "averageRating", "totalSessions",
                          "count", "sum", "avg"} # {}

\* the bounded digest: the total count and exactly the first ten records
IsDigestOf(text, recs) ==
  LET sample == StringifyPretty(SubSeq(recs, 1, 10)) IN
  /\ Len(text) >= 5 + Len(sample)
  /\ text[1] = "Data overview:\n"
  /\ text[2] = "- Total records: " /\ text[3] = ToString(Len(recs))
  /\ SubSeq(text, 6, 5 + Len(sample)) = sample
  /\ ~EndsWithAllRecords(text, recs)

\* C14: a non-empty result set whose every record is aggregated-shaped and
\* that has at most 200 records, or that has at most 10 records, is
\* summarized by the serialization of all its records; an aggregated-shaped
\* set of more than 200 records is not serialized in full.
C14_FullSerialization ==
  (SumDone /\ SumLen > 0) =>
    /\ ((EveryRecordAggregated(sumInput.items) /\ SumLen <= 200) \/ SumLen <= 10)
         => EndsWithAllRecords(sumOutput, sumInput.items)
    /\ (EveryRecordAggregated(sumInput.items) /\ SumLen > 200)
         => ~EndsWithAllRecords(sumOutput, sumInput.items)

C14_Witness ==
  /\ SumDone /\ SumLen = 200
  /\ EveryRecordAggregated(sumInput.items)
  /\ EndsWithAllRecords(sumOutput, sumInput.items)

\* C15: a result set of more than 10 records that is not aggregated (some
\* record lacks the identifier or every aggregate-value field, or the set has
\* more than 200 records) is summarized by the bounded digest, also when only
\* its first record has the aggregated shape.
C15_DigestWhenNotAggregated ==
  (SumDone /\ SumLen > 10
     /\ ~(EveryRecordAggregated(sumInput.items) /\ SumLen <= 200))
    => IsDigestOf(sumOutput, sumInput.items)

\* C16: the empty result set, and no other, is summarized by the fixed
\* no-data sentence.
C16_NoDataSentence ==
  SumDone =>
    (SumLen = 0 <=> sumOutput = <<"No data found matching the query criteria.">>)

C16_Witness ==
  /\ SumDone /\ SumLen = 0
  /\ sumOutput = <<"No data found matching the query criteria.">>

\* ------------------------------------------- the success response, by itself
Analyses == {<<"Average", " ", "4.2">>, <<>>}
AskedQueries == {<<"q1">>, <<" ", "q2">>}

\* the handler builds the response of a request whose three stages succeeded
Respond(query, results, analysis) ==
  /\ respPc = "idle"
  /\ respPc' = "done"
  /\ respInput' = results
  /\ respOutput' = SuccessResponse(query, results, analysis)
  /\ UNCHANGED <<qgVars, raVars, connVars, runVars, genVars, anaVars, nCalls>>
  /\ UNCHANGED <<sumVars, pipeVars, clientVars>>

RespNext ==
  \E query \in AskedQueries, results \in SummaryInputs, analysis \in Analyses :
    Respond(query, results, analysis)

RespSpec == Init /\ [][RespNext]_vars

RespDone == respPc = "done"
RespLen == Len(respInput.items)

\* C18: a success response carries the whole result list when it has at most
\* 200 records and exactly its first 50 records, in order, when it has more;
\* the result count is the size of the whole result set in both cases.
C18_TruncatedRawResults ==
  RespDone =>
    /\ respOutput.success /\ "rawResults" \in respOutput.keys
    /\ respOutput.resultCount = RespLen
    /\ RespLen <= 200 => respOutput.rawResults = respInput.items
    /\ RespLen > 200 =>
         /\ Len(respOutput.rawResults) = 50
         /\ \A i \in 1 .. 50 : respOutput.rawResults[i] = respInput.items[i]

C18_Witness ==
  /\ RespDone /\ RespLen = 201
  /\ Len(respOutput.rawResults) = 50
  /\ respOutput.resultCount = 201

\* ------------------------------------------- the request handler (pipeline)
\* executeQueryWithRetry(mongoQuery, originalQuery, maxRetries = 2)
DefaultMaxRetries == 2

PipeMethods == {"POST", "GET", "OPTIONS"}
PipeQueries == {<<"q1">>, <<" ", "q2">>, <<" ", "\n">>, <<>>}
PipeOracle ==
  [type : {"text"},
   text : { <<"[", "]">>,
            <<" ", "[", "{", "$match", "}", ",", "{", "$group", "}", "]", "\n">>,
            <<"{", "$match", "}">>,
            <<"Sorry">> }]
    \cup [type : {"unavailable"}, text : {<<>>}]
PipeResults ==
  {JArr(<<>>), MkResults(2, {"_id", "avgRating"}, {"_id", "instructor"})}
PipeStoreOutcomes ==
  [ok : {TRUE}, result : PipeResults, message : {<<>>}]
    \cup [ok : {FALSE}, result : {Undefined}, message : {<<"e1">>}]

\* the shared service objects as a request sees them
Services ==
  [qgInit |-> qgInitialized, qgCtx |-> qgContext,
   raInit |-> raInitialized, raCtx |-> raContext, coll |-> collection]

\* mutant: a repeated initialize loads the context again, marked as reloaded
InitializeS_Reload(s, context) ==
  [isInitialized |-> TRUE,
   context |-> IF s.isInitialized THEN "reloaded" ELSE context]

\* initialize() of either service, on its two fields
InitializeS(s, context) ==
  IF s.isInitialized THEN s
  ELSE [isInitialized |-> TRUE, context |-> context]

\* a response is sent and the handler returns
Reply(q, resp) ==
  [q EXCEPT !.pc = "done", !.responses = Append(@, resp),
            !.trace = Append(@, "respond")]

\* catch (error): res.status(500).json({ success: false, error })
Fail(q, msg) == Reply(q, FailureResponse(500, ErrorText(msg)))

\* the run record replaces the old one; the calls it added are traced
WithRun(q, run) ==
  [q EXCEPT !.run = run,
            !.trace = @ \o (IF Len(run.scalls) > Len(q.run.scalls)
                            THEN <<"store">> ELSE <<>>)
                        \o (IF Len(run.fcalls) > Len(q.run.fcalls)
                            THEN <<"fix">> ELSE <<>>)]

\* mutant: analyzeResults is called whatever executeQueryWithRetry did
AfterRunR_AnalyzeAnyway(q, svc) ==
  IF q.run.pc # "done" THEN [q EXCEPT !.pc = q.run.pc]
  ELSE LET a == [q EXCEPT !.trace = Append(@, "analyze")] IN
       [a EXCEPT !.pc = "analyzing",
                 !.acalls = Append(@,
                    [system |-> svc.raCtx,
                     user |-> [question |-> q.query,
                               summary |-> prepareResultSummary(q.run.ret.value)]])]

\* executeQueryWithRetry is awaited: wait on, fail, or call analyzeResults,
\* whose oracle request is then in flight
AfterRunR(q, svc) ==
  IF q.run.pc # "done" THEN [q EXCEPT !.pc = q.run.pc]
  ELSE IF q.run.ret.status = "threw" THEN Fail(q, q.run.ret.error)
  ELSE IF q.run.ret.value.kind = "undefined"
  THEN Fail(q, <<"Cannot read properties of undefined (reading 'length')">>)
  ELSE LET a == [q EXCEPT !.trace = @ \o <<"ran", "analyze">>] IN
       IF ~svc.raInit
       THEN Fail([a EXCEPT !.ana = ThrowText(<<"Result Analyzer not initialized">>)],
                 <<"Result Analyzer not initialized">>)
       ELSE [a EXCEPT !.pc = "analyzing",
                      !.acalls = Append(@,
                         [system |-> svc.raCtx,
                          user |-> [question |-> q.query,
                                    summary |-> prepareResultSummary(q.run.ret.value)]])]

\* mutant: a failed generateQuery is sent to fixQuery like a failed attempt
AfterGenerateR_Repair(q, ret, svc) ==
  LET g == [q EXCEPT !.gen = ret] IN
  IF ret.status = "threw"
  THEN AfterRunR(WithRun(g, OnFailureS(NewRun, DefaultMaxRetries, q.query,
                                       ret.error, svc.qgInit, svc.qgCtx)), svc)
  ELSE AfterRunR(WithRun([g EXCEPT !.trace = Append(@, "generated")],
                         IterateS([NewRun EXCEPT !.query = ret.value],
                                  DefaultMaxRetries, q.query, svc.coll,
                                  svc.qgInit, svc.qgCtx)), svc)

\* generateQuery settles: fail, or call executeQueryWithRetry(mongoQuery, query)
AfterGenerateR(q, ret, svc) ==
  LET g == [q EXCEPT !.gen = ret] IN
  IF ret.status = "threw" THEN Fail(g, ret.error)
  ELSE AfterRunR(WithRun([g EXCEPT !.trace = Append(@, "generated")],
                         IterateS([NewRun EXCEPT !.query = ret.value],
                                  DefaultMaxRetries, q.query, svc.coll,
                                  svc.qgInit, svc.qgCtx)), svc)

\* mutant: a failed analysis is answered with the results alone
AfterAnalyzeR_Partial(q, ret) ==
  LET a == [q EXCEPT !.ana = ret] IN
  IF ret.status = "threw"
  THEN Reply(a, SuccessResponse(q.query, q.run.ret.value, <<>>))
  ELSE Reply(a, SuccessResponse(q.query, q.run.ret.value, ret.value))

\* analyzeResults settles: fail, or send the success response
AfterAnalyzeR(q, ret) ==
  LET a == [q EXCEPT !.ana = ret] IN
  IF ret.status = "threw" THEN Fail(a, ret.error)
  ELSE Reply(a, SuccessResponse(q.query, q.run.ret.value, ret.value))

\* from `const { query } = req.body` to the oracle request of generateQuery
StartPipeline(q, svc) ==
  IF Trim(q.query) = <<>>
  THEN Reply(q, FailureResponse(400, <<"Query is required">>))
  ELSE LET g == [q EXCEPT !.trace = Append(@, "generate")] IN
       IF ~svc.qgInit
       THEN Fail([g EXCEPT !.gen = Throw(<<"Query Generator not initialized">>)],
                 <<"Query Generator not initialized">>)
       ELSE [g EXCEPT !.pc = "generating"]

\* mutant: currentQuery lives on the shared service object, where the
\* invocation of the first request wrote it
CurrentQueryOf_Shared(rq, r) == rq["r1"].run.query

\* `let currentQuery`: a local of the invocation made by request r
CurrentQueryOf(rq, r) == rq[r].run.query

\* the locals of r's invocation when one of its awaits settles
RunOf(rq, r) == [rq[r].run EXCEPT !.query = CurrentQueryOf(rq, r)]

pipeRest ==
  <<connPc, connRet, runVars, genVars, anaVars, nCalls, sumVars, respVars,
    clientVars>>

\* A request arrives and the handler runs up to its first pending await:
\* the method tests, initializeContexts() up to client.connect(), and, when
\* nothing is left to connect, the body test and the call of generateQuery.
Arrive(r, method, query) ==
  /\ req[r].pc = "idle"
  /\ LET q0 == [req[r] EXCEPT !.method = method, !.query = query]
         doInit == method = "POST" /\ ~isContextInitialized
         qg == IF doInit
               THEN InitializeS([isInitialized |-> qgInitialized,
                                 context |-> qgContext], QG_CONTEXT)
               ELSE [isInitialized |-> qgInitialized, context |-> qgContext]
         ra == IF doInit
               THEN InitializeS([isInitialized |-> raInitialized,
                                 context |-> raContext], RA_CONTEXT)
               ELSE [isInitialized |-> raInitialized, context |-> raContext]
         q1 == IF doInit
               THEN [q0 EXCEPT !.trace = @ \o <<"initialize", "connect">>]
               ELSE q0
         svc == [qgInit |-> qg.isInitialized, qgCtx |-> qg.context,
                 raInit |-> ra.isInitialized, raCtx |-> ra.context,
                 coll |-> collection]
         newClient == doInit /\ ~isConnected
     IN
     /\ qgInitialized' = qg.isInitialized /\ qgContext' = qg.context
     /\ raInitialized' = ra.isInitialized /\ raContext' = ra.context
     /\ client' = IF newClient THEN "MongoClient" ELSE client
     /\ clientsCreated' = IF newClient THEN clientsCreated + 1 ELSE clientsCreated
     /\ isContextInitialized' = (isContextInitialized \/ (doInit /\ isConnected))
     /\ req' = [req EXCEPT ![r] =
                 IF method = "OPTIONS" THEN Reply(q1, EmptyResponse(200))
                 ELSE IF method # "POST"
                 THEN Reply(q1, FailureResponse(405, <<"Method not allowed">>))
                 ELSE IF newClient THEN [q1 EXCEPT !.pc = "connecting"]
                 ELSE StartPipeline(q1, svc)]
  /\ UNCHANGED <<db, collection, isConnected>>
  /\ UNCHANGED pipeRest

\* client.connect() of r's connect() settles; on success the countDocuments
\* of testConnection is in flight
ConnectReturn(r, ok) ==
  /\ req[r].pc = "connecting"
  /\ IF ok
     THEN /\ db' = "rating-analyzer"
          /\ collection' = "sessions"
          /\ isConnected' = TRUE
          /\ req' = [req EXCEPT ![r].pc = "testing"]
     ELSE /\ req' = [req EXCEPT ![r] =
                      Fail(@, <<"Database connection failed: ", "connect failed">>)]
          /\ UNCHANGED <<db, collection, isConnected>>
  /\ UNCHANGED <<qgVars, raVars, client, isContextInitialized, clientsCreated>>
  /\ UNCHANGED pipeRest

\* countDocuments settles: connect() returns and initializeContexts sets its
\* flag, or connect() throws into the handler's catch
TestReturn(r, ok) ==
  /\ req[r].pc = "testing"
  /\ IF ok
     THEN /\ isContextInitialized' = TRUE
          /\ req' = [req EXCEPT ![r] = StartPipeline(@, Services)]
     ELSE /\ req' = [req EXCEPT ![r] =
                      Fail(@, <<"Database connection failed: ",
                                "Database test failed: ", "count failed">>)]
          /\ UNCHANGED isContextInitialized
  /\ UNCHANGED <<qgVars, raVars, client, db, collection, isConnected,
                 clientsCreated>>
  /\ UNCHANGED pipeRest

pipeShared ==
  <<qgVars, raVars, client, db, collection, isConnected,
    isContextInitialized, clientsCreated>>

\* the oracle answers r's generateQuery
PGenerateReturn(r, out) ==
  /\ req[r].pc = "generating"
  /\ req' = [req EXCEPT ![r] = AfterGenerateR(@, generateQuery(out), Services)]
  /\ UNCHANGED pipeShared
  /\ UNCHANGED pipeRest

\* the store answers the aggregate of r's invocation
PStoreReturn(r, out) ==
  /\ req[r].pc = "executing"
  /\ req' = [req EXCEPT ![r] =
              AfterRunR(WithRun(@, AfterStoreS(RunOf(req, r), out,
                                               DefaultMaxRetries, @.query,
                                               qgInitialized, qgContext)),
                        Services)]
  /\ UNCHANGED pipeShared
  /\ UNCHANGED pipeRest

\* the oracle answers the fixQuery of r's invocation
PFixReturn(r, out) ==
  /\ req[r].pc = "repairing"
  /\ req' = [req EXCEPT ![r] =
              AfterRunR(WithRun([@ EXCEPT !.frets = Append(@, fixQuery(out))],
                                AfterFixS(RunOf(req, r), fixQuery(out),
                                          DefaultMaxRetries, @.query, collection,
                                          qgInitialized, qgContext)),
                        Services)]
  /\ UNCHANGED pipeShared
  /\ UNCHANGED pipeRest

\* the oracle answers r's analyzeResults
PAnalyzeReturn(r, out) ==
  /\ req[r].pc = "analyzing"
  /\ req' = [req EXCEPT ![r] = AfterAnalyzeR(@, analyzeResults(out))]
  /\ UNCHANGED pipeShared
  /\ UNCHANGED pipeRest

PipeNext ==
  \/ \E r \in Requests, method \in PipeMethods, query \in PipeQueries :
       Arrive(r, method, query)
  \/ \E r \in Requests, ok \in BOOLEAN : ConnectReturn(r, ok)
  \/ \E r \in Requests, ok \in BOOLEAN : TestReturn(r, ok)
  \/ \E r \in Requests, out \in PipeOracle : PGenerateReturn(r, out)
  \/ \E r \in Requests, out \in PipeStoreOutcomes : PStoreReturn(r, out)
  \/ \E r \in Requests, out \in PipeOracle : PFixReturn(r, out)
  \/ \E r \in Requests, out \in PipeOracle : PAnalyzeReturn(r, out)

PipeSpec == Init /\ [][PipeNext]_vars

\* --------------------------------------------------- claims on the pipeline
StageFailed(q) ==
  q.gen.status = "threw" \/ q.run.ret.status = "threw" \/ q.ana.status = "threw"

StageError(q) ==
  IF q.gen.status = "threw" THEN q.gen.error
  ELSE IF q.run.ret.status = "threw" THEN q.run.ret.error
  ELSE q.ana.error

Idx(t, e) == {i \in 1 .. Len(t) : t[i] = e}

\* C11: a request whose generate, run or analyze failed has exactly one
\* response, a failure carrying that stage's error message and no result
\* count, analysis or raw results; a success response exists only when all
\* three stages returned, and carries the analysis and the result count of
\* that run.
C11_PipelineIsOneUnit ==
  \A r \in Requests :
    LET q == req[r] IN
    /\ Len(q.responses) <= 1
    /\ StageFailed(q) =>
         /\ q.pc = "done"
         /\ Len(q.responses) = 1
         /\ ~q.responses[1].success
         /\ q.responses[1].error = StageError(q)
         /\ q.responses[1].keys = {"success", "error"}
    /\ \A i \in 1 .. Len(q.responses) :
         q.responses[i].success =>
           /\ q.gen.status = "returned"
           /\ q.run.ret.status = "returned"
           /\ q.ana.status = "returned"
           /\ q.responses[i].analysis = q.ana.value
           /\ q.responses[i].resultCount = Len(q.run.ret.value.items)

C11_Witness ==
  \E r \in Requests :
    /\ req[r].pc = "done"
    /\ req[r].run.ret.status = "returned"
    /\ Len(req[r].run.ret.value.items) > 0
    /\ req[r].ana.status = "threw"
    /\ req[r].responses = <<FailureResponse(500, req[r].ana.error)>>

\* C12: in a request, the store is queried and fix is called only after
\* generate returned a query, analyze is called only after run returned a
\* result set and after every store and fix call, and generate and analyze
\* are each called at most once.
C12_StagesInOrder ==
  \A r \in Requests :
    LET t == req[r].trace
        runCalls == Idx(t, "store") \cup Idx(t, "fix")
    IN
    /\ Cardinality(Idx(t, "generate")) <= 1
    /\ Cardinality(Idx(t, "analyze")) <= 1
    /\ \A i \in Idx(t, "generated") : \E j \in Idx(t, "generate") : j < i
    /\ \A i \in runCalls : \E j \in Idx(t, "generated") : j < i
    /\ req[r].run.scalls # <<>> => req[r].gen.status = "returned"
    /\ \A i \in Idx(t, "analyze") :
         /\ \E j \in Idx(t, "ran") : j < i
         /\ \A k \in runCalls : k < i
         /\ req[r].run.ret.status = "returned"
         /\ IsArray(req[r].run.ret.value)

C12_Witness ==
  \E r \in Requests :
    /\ req[r].pc = "done"
    /\ Len(req[r].responses) = 1 /\ req[r].responses[1].success
    /\ Idx(req[r].trace, "fix") # {}
    /\ Cardinality(Idx(req[r].trace, "store")) = 2

\* C13: in a request whose generate failed, fix is never called, the store
\* executes no query, no attempt is consumed, and the request has failed
\* with the error of generate.
C13_GenerateFailureNotRepaired ==
  \A r \in Requests :
    req[r].gen.status = "threw" =>
      /\ req[r].run = NewRun
      /\ req[r].frets = <<>>
      /\ Idx(req[r].trace, "fix") = {} /\ Idx(req[r].trace, "store") = {}
      /\ req[r].pc = "done"
      /\ req[r].responses = <<FailureResponse(500, req[r].gen.error)>>

C13_Witness ==
  \E r \in Requests :
    /\ req[r].pc = "done"
    /\ req[r].gen.status = "threw"
    /\ ErrorKind(req[r].gen.error) = "TranslationError"
    /\ req[r].run.att = 0

\* C17: once isInitialized is true on the query generator or on the result
\* analyzer, no step (a further initialize, generate, fix, analyze, the
\* summary) changes it or the loaded context.
C17_InitializeIdempotent ==
  [][/\ qgInitialized => (qgInitialized' /\ qgContext' = qgContext)
     /\ raInitialized => (raInitialized' /\ raContext' = raContext)]_vars

C17_Witness ==
  /\ \A r \in Requests : Idx(req[r].trace, "initialize") # {}
  /\ qgInitialized /\ qgContext = QG_CONTEXT
  /\ raInitialized /\ raContext = RA_CONTEXT
  /\ \E r \in Requests :
       /\ Idx(req[r].trace, "fix") # {}
       /\ req[r].ana.status = "returned"

\* C19: at most one store client is ever created, however the requests
\* arrive.
C19_SingleClient == clientsCreated <= 1

\* C20: every attempt of a request executes the query its own generate
\* returned or a query one of its own fix calls returned, and a success
\* response is built from the result set the store returned to an attempt of
\* that request.
C20_NoSharedRunState ==
  \A r \in Requests :
    LET q == req[r]
        own(x) == \/ (q.gen.status = "returned" /\ x = q.gen.value)
                  \/ \E j \in 1 .. Len(q.frets) :
                       q.frets[j].status = "returned" /\ x = q.frets[j].value
    IN
    /\ \A i \in 1 .. Len(q.run.alog) : own(q.run.alog[i].query)
    /\ \A i \in 1 .. Len(q.run.scalls) : own(q.run.scalls[i])
    /\ \A i \in 1 .. Len(q.responses) :
         q.responses[i].success =>
           \E k \in 1 .. Len(q.run.alog) :
             /\ q.run.alog[k].outcome = "ok"
             /\ q.responses[i].resultCount = Len(q.run.alog[k].result.items)
             /\ q.responses[i].rawResults = RawResults(q.run.alog[k].result.items)

C20_Witness ==
  /\ \A r \in Requests : req[r].pc = "executing" /\ Len(req[r].run.alog) = 2
  /\ req["r1"].run.query # req["r2"].run.query
  /\ req["r1"].gen.value # req["r2"].gen.value
  /\ req["r2"].run.query # req["r2"].gen.value

\* ------------------------------- executeQueryWithRetry: outcome and progress
RunSuccess == runRet.status = "returned" /\ IsArray(runRet.value)
RunExhausted ==
  runRet.status = "threw" /\ ErrorKind(runRet.error) = "QueryExecutionError"
RunRepairFailed ==
  runRet.status = "threw" /\ ErrorKind(runRet.error) = "QueryRepairError"

\* C21: for every maxRetries, zero and negative values included, a finished
\* executeQueryWithRetry has returned a result set or thrown the exhausted or
\* the repair error; it never returns without a result set.
C21_ResultSetOrError ==
  RunDone => (RunSuccess \/ RunExhausted \/ RunRepairFailed)

\* Every aggregate call and every oracle call in flight settles.
RunLiveSpec ==
  /\ Init /\ [][Next]_vars
  /\ WF_vars(\E out \in StoreOutcomes : RunStoreReturn(out))
  /\ WF_vars(\E out \in OracleOutcomes : RunFixReturn(out))

\* C22: when every store call and every oracle call settles, an invocation
\* with maxRetries >= 1 eventually ends in exactly one of success, exhausted
\* and repair failed, and once it has ended it makes no further store or
\* oracle call and keeps its outcome.
C22_RunTerminates ==
  /\ (runPc # "idle" /\ maxRetries >= 1) ~>
       /\ RunDone
       /\ Cardinality({k \in {"s", "e", "r"} :
                         \/ (k = "s" /\ RunSuccess)
                         \/ (k = "e" /\ RunExhausted)
                         \/ (k = "r" /\ RunRepairFailed)}) = 1
  /\ [][RunDone => /\ RunDone'
                   /\ storeCalls' = storeCalls
                   /\ fixCalls' = fixCalls
                   /\ runRet' = runRet]_vars

C22_Witness ==
  /\ RunDone /\ maxRetries >= 2 /\ RunSuccess
  /\ Len(storeCalls) = 2 /\ Len(fixCalls) = 1

\* C27: every fixQuery call answers a failure of the store executing a
\* query; an attempt that could make no store call because the collection
\* is unset is followed by no fixQuery call.
C27_FixOnlyAfterStoreFailure ==
  \A i \in 1 .. Len(fixCalls) :
    /\ fixCalls[i].errorMessage # NullCollectionError
    /\ i <= Len(storeCalls)

\* C23: every value generateQuery returns is an array of stage objects; an
\* oracle answer that parses as an array holding a non-object element makes
\* generateQuery fail with the translation error.
C23_GenerateReturnsStageObjects ==
  \A i \in 1 .. Len(genRets) :
    genRets[i].ret.status = "returned" =>
      /\ IsArray(genRets[i].ret.value)
      /\ \A k \in 1 .. Len(genRets[i].ret.value.items) :
           genRets[i].ret.value.items[k].kind = "object"

\* C26: with no connect() in progress, isConnected is true only if the most
\* recent connect() returned without error; a connect() that threw, also
\* one whose connection test failed, has left isConnected false.
C26_ConnectedOnlyAfterSuccess ==
  (connPc = "idle" /\ isConnected) => connRet.status = "returned"

\* ------------------------------------------------- the digest, line by line
\* the digest branch was taken
SumDigested ==
  SumDone /\ SumLen > 10 /\ ~isAggregatedData(sumInput)

RECURSIVE WeightedSum(_, _)
WeightedSum(q, values) ==
  IF values = {} THEN 0
  ELSE LET v == CHOOSE x \in values : TRUE IN
       v * Cardinality({i \in 1 .. Len(q) : q[i].rating = v})
         + WeightedSum(q, values \ {v})

\* the records that carry a rating, and the expected mean in hundredths
RatedRecords(recs) ==
  SelectSeq(recs, LAMBDA r : "ratings" \in r.keys /\ r.rating # 0)

ExpectedMeanLine(recs) ==
  LET rated == RatedRecords(recs)
      n == Len(rated)
      total == WeightedSum(rated, {rated[i].rating : i \in 1 .. n})
  IN IF n = 0 THEN <<>>
     ELSE <<"- Average rating across results: ",
            ToString((2 * total + n) \div (2 * n)), "\n">>

\* the values of a field in first-occurrence order, each once
FirstOccurrences(recs, key, val(_)) ==
  LET has(i) == key \in recs[i].keys /\ val(recs[i]) # ""
      idx == SelectSeq([i \in 1 .. Len(recs) |-> i],
                       LAMBDA i : /\ has(i)
                                  /\ \A j \in 1 .. (i - 1) :
                                       ~(has(j) /\ val(recs[j]) = val(recs[i])))
  IN [k \in 1 .. Len(idx) |-> val(recs[idx[k]])]

InstructorOf(r) == r.instructor
DomainOf(r) == r.domain

ExpectedInstructorLine(recs) ==
  LET names == FirstOccurrences(recs, "instructor", InstructorOf) IN
  IF Len(names) = 0 THEN <<>>
  ELSE <<"- Unique instructors: ", ToString(Len(names)), " (">>
         \o JoinComma(SubSeq(names, 1, IF Len(names) < 5 THEN Len(names) ELSE 5))
         \o (IF Len(names) > 5 THEN <<"...">> ELSE <<>>)
         \o <<")\n">>

ExpectedDomainLine(recs) ==
  LET doms == FirstOccurrences(recs, "domain", DomainOf) IN
  IF Len(doms) = 0 THEN <<>>
  ELSE <<"- Domains covered: ">> \o JoinComma(doms) \o <<"\n">>

\* C24: in the digest, the mean rating is the sum of the ratings of exactly
\* the records that carry one divided by their number, and is left out when
\* there is none; the instructor line lists the distinct names in
\* first-occurrence order, at most the first 5, with an ellipsis exactly
\* when there are more than 5; the domain line lists each distinct domain
\* once.
C24_DigestLines ==
  SumDigested =>
    LET recs == sumInput.items
        sample == StringifyPretty(SubSeq(recs, 1, 10))
        from == 5 + Len(sample) + 2
    IN /\ Len(sumOutput) >= from - 1
       /\ SubSeq(sumOutput, from, Len(sumOutput)) =
            (ExpectedMeanLine(recs) \o ExpectedInstructorLine(recs))
              \o ExpectedDomainLine(recs)

C24_Witness ==
  /\ SumDigested
  /\ Len(RatedRecords(sumInput.items)) \in 1 .. (SumLen - 1)
  /\ Len(FirstOccurrences(sumInput.items, "instructor", InstructorOf)) > 5
  /\ \E i \in 1 .. Len(sumOutput) : sumOutput[i] = "..."
  /\ \E i \in 1 .. Len(sumOutput) : sumOutput[i] = "- Domains covered: "

\* ------------------------------- summary and response of the same result set
\* The tail of a successful request: analyzeResults summarizes the results,
\* then the handler builds the response from the same results.
RespondSame(query, analysis) ==
  /\ sumPc = "done"
  /\ Respond(query, sumInput, analysis)

TailNext ==
  \/ SumNext
  \/ \E query \in AskedQueries, analysis \in Analyses :
       RespondSame(query, analysis)

TailSpec == Init /\ [][TailNext]_vars

\* C25: whenever the summary serializes every record of a result set, the
\* response's raw result list holds every record too; the raw list is cut
\* to 50 only for result sets that the summary digests.
C25_TruncationMatchesSummary ==
  (SumDone /\ RespDone /\ SumLen > 0) =>
    /\ EndsWithAllRecords(sumOutput, sumInput.items)
         => respOutput.rawResults = sumInput.items
    /\ Len(respOutput.rawResults) < SumLen
         => /\ Len(respOutput.rawResults) = 50
            /\ IsDigestOf(sumOutput, sumInput.items)

C25_Witness ==
  /\ SumDone /\ RespDone /\ SumLen = 200
  /\ EndsWithAllRecords(sumOutput, sumInput.items)
  /\ respOutput.rawResults = sumInput.items

\* ------------------------------------------- browser client (public/script.js)
MaxSubmits == 3

\* what the user has typed when submitQuery is called
ClientInputs == {<<"q1">>, <<" ", "\n">>}
\* fetch(): a response arrives, the connection fails, or the 60 s
\* AbortSignal.timeout fires
FetchOutcomes == {"response", "network", "timeout"}
\* response.json(): the body of a success, the body of a failure, a body
\* that is not JSON, or the timeout firing while the body is read
BodyOutcomes == {"success", "failure", "notjson", "timeout"}

\* the error object a rejected await throws
ClientError(out) ==
  IF out = "timeout" THEN [name |-> "TimeoutError", message |-> "signal timed out"]
  ELSE IF out = "notjson" THEN [name |-> "SyntaxError", message |-> "Unexpected token"]
  ELSE [name |-> "TypeError", message |-> "Failed to fetch"]

\* the message the catch block shows
CatchMessage(error) ==
  IF error.name = "AbortError" THEN <<"Request timed out.">>
  ELSE IF error.message = "HTTP error" THEN <<"Server error: ", error.message>>
  ELSE <<"Network error: Could not connect to server.">>

ClientCall(pc, sent, outcome) == [pc |-> pc, sent |-> sent, outcome |-> outcome]

clientRest ==
  <<qgVars, raVars, connVars, runVars, genVars, anaVars, nCalls,
    sumVars, pipeVars, respVars>>

\* mutant: submitQuery does not test isLoading
submitQuery_NoGuard(text) ==
  /\ Len(calls) < MaxSubmits
  /\ IF Trim(text) = <<>>
     THEN /\ calls' = Append(calls, ClientCall("returned", FALSE, "alert"))
          /\ UNCHANGED <<isLoading, submitBtnDisabled, shown>>
     ELSE /\ isLoading' = TRUE
          /\ submitBtnDisabled' = TRUE
          /\ shown' = <<>>
          /\ calls' = Append(calls, ClientCall("fetching", TRUE, "pending"))
  /\ UNCHANGED clientRest

\* submitQuery() up to its first await: the isLoading test, the blank test,
\* setLoadingState(true), hideResults(), hideError(), then fetch is in flight
submitQuery(text) ==
  /\ Len(calls) < MaxSubmits
  /\ IF isLoading
     THEN /\ calls' = Append(calls, ClientCall("returned", FALSE, "noop"))
          /\ UNCHANGED <<isLoading, submitBtnDisabled, shown>>
     ELSE IF Trim(text) = <<>>
     THEN /\ calls' = Append(calls, ClientCall("returned", FALSE, "alert"))
          /\ UNCHANGED <<isLoading, submitBtnDisabled, shown>>
     ELSE /\ isLoading' = TRUE
          /\ submitBtnDisabled' = TRUE
          /\ shown' = <<>>
          /\ calls' = Append(calls, ClientCall("fetching", TRUE, "pending"))
  /\ UNCHANGED clientRest

\* catch: setLoadingState(false), showError(...), return; then finally:
\* setLoadingState(false)
ClientCatch(i, out) ==
  /\ isLoading' = FALSE
  /\ submitBtnDisabled' = FALSE
  /\ shown' = <<"error">> \o CatchMessage(ClientError(out))
  /\ calls' = [calls EXCEPT ![i] = ClientCall("returned", TRUE, out)]

\* the fetch of call i settles; a response leaves response.json() in flight
FetchSettles(i, out) ==
  /\ i \in 1 .. Len(calls)
  /\ calls[i].pc = "fetching"
  /\ IF out = "response"
     THEN /\ calls' = [calls EXCEPT ![i].pc = "reading"]
          /\ UNCHANGED <<isLoading, submitBtnDisabled, shown>>
     ELSE ClientCatch(i, out)
  /\ UNCHANGED clientRest

\* response.json() of call i settles: showResults or showError, then
\* finally: setLoadingState(false); a rejection goes to the catch block
BodySettles(i, out) ==
  /\ i \in 1 .. Len(calls)
  /\ calls[i].pc = "reading"
  /\ IF out \in {"success", "failure"}
     THEN /\ isLoading' = FALSE
          /\ submitBtnDisabled' = FALSE
          /\ shown' = IF out = "success" THEN <<"results">>
                       ELSE <<"error", "data.error">>
          /\ calls' = [calls EXCEPT ![i] = ClientCall("returned", TRUE, out)]
     ELSE ClientCatch(i, out)
  /\ UNCHANGED clientRest

ClientNext ==
  \/ \E text \in ClientInputs : submitQuery(text)
  \/ \E i \in 1 .. MaxSubmits, out \in FetchOutcomes : FetchSettles(i, out)
  \/ \E i \in 1 .. MaxSubmits, out \in BodyOutcomes : BodySettles(i, out)

ClientSpec == Init /\ [][ClientNext]_vars

InFlight == {i \in 1 .. Len(calls) : calls[i].pc \in {"fetching", "reading"}}

\* C28: at most one query request is in flight at any time, a submitQuery
\* called while isLoading is true sends nothing, and isLoading is true
\* exactly while a request is in flight: once the call that sent it has
\* ended, by a success or failure response, a network error or the timeout,
\* isLoading is false again.
C28_OneRequestAtATime ==
  /\ Cardinality(InFlight) <= 1
  /\ isLoading <=> InFlight # {}
  /\ submitBtnDisabled = isLoading
  /\ \A i \in 1 .. Len(calls) :
       /\ calls[i].outcome = "noop" => ~calls[i].sent
       /\ (calls[i].sent /\ calls[i].pc = "returned" /\ i = Len(calls))
            => ~isLoading

C28_Witness ==
  /\ Len(calls) = 3 /\ ~isLoading
  /\ calls[1].sent /\ calls[1].outcome = "timeout"
  /\ calls[2].outcome = "noop"
  /\ calls[3].sent /\ calls[3].outcome = "success"

====
